---- MODULE Spec2Model ----
(***************************************************************************)
(* A model of central_server.py: the heartbeat ingest handler, the         *)
(* background monitor and buffer rotator threads, the event drain and the  *)
(* archive pull / acknowledge endpoints, all sharing the two SQLite        *)
(* stores, the global batch id and the global event queue.                 *)
(*                                                                         *)
(* Flask serves each request on a thread of its own.  Every access to      *)
(* shared state that a handler makes outside `with db_lock` is a step of   *)
(* its own, and every `with db_lock` block of a request handler or of the  *)
(* rotator is one step, taken only while the lock is free.  The monitor    *)
(* holds the lock over several steps (one per demoted node) because its    *)
(* appends to event_queue interleave with get_events, which takes no       *)
(* lock.  The drain, pull and acknowledge handlers, which span several     *)
(* steps, run on the threads in Handlers.                                  *)
(*                                                                         *)
(* Time is int(time.time()); the thresholds are scaled down to a few       *)
(* seconds so that silences and rotations happen within MaxTime.           *)
(*                                                                         *)
(* A storage fault is a sqlite3 exception raised inside a background       *)
(* thread's with block; MonitorFault and RotatorFault are the steps the     *)
(* code takes then, and only the specifications named after them take them.*)
(***************************************************************************)
EXTENDS Integers, Sequences, FiniteSets, TLC

\* ---------------------------------------------------------------- bounds
MaxTime == 3
MaxRequests == 4

Nodes == {"a"}
NodeTypes == {"vps", "bot"}
Handlers == {"w1", "w2"}

\* ------------------------------------------------------------- constants
\* OFFLINE_THRESHOLD (env, default 90) and BUFFER_ROTATE_SECONDS (600),
\* scaled to the model's clock.
OFFLINE_THRESHOLD == 1
BUFFER_ROTATE_SECONDS == 1

\* Python's None and the empty string: the falsy values of a request field
\* and of current_batch_id.
None == ""
\* str(uuid.uuid4()): the k-th identifier drawn; distinct draws differ.
Uuid(k) == ToString(k)
\* A batch id the server never issued.
BogusBatch == "bogus"

VARIABLES
    now,               \* int(time.time())
    heartbeats,        \* buffer.db, table heartbeats
    node_status,       \* buffer.db, table node_status: node -> row
    heartbeats_archive,\* archive.db, table heartbeats_archive
    current_batch_id,  \* global current_batch_id
    event_queue,       \* global event_queue
    db_lock,           \* holder of db_lock, or None
    uuids,             \* number of uuid4() values drawn so far
    pc,                \* handler -> position in its request handler
    req,               \* handler -> locals of the request it is serving
    resp,              \* the response returned last
    mon_pc,            \* position of the monitor_nodes thread
    mon_now,           \* monitor_nodes: local now
    offline_nodes,     \* monitor_nodes: rows fetched and not yet iterated
    delivered,         \* records of every pull response returned so far
    acked,             \* batch ids logged "acknowledged & cleared" so far
    returned,          \* batch ids of every pull response returned so far
    nreq,              \* requests processed so far (rejected ones apart)
    last_event,        \* node -> type of the last event appended for it
    mon_undo,          \* monitor_nodes: nodes updated and not yet committed
    rot_partial        \* rows the last failed rotation copied and left in the
                       \* buffer, and whether a rotation has cleared them since

vars == <<now, heartbeats, node_status, heartbeats_archive, current_batch_id,
          event_queue, db_lock, uuids, pc, req, resp, mon_pc, mon_now,
          offline_nodes, delivered, acked, returned, nreq, last_event,
          mon_undo, rot_partial>>

\* ---------------------------------------------------------------- helpers
Truthy(x) == x # None

\* seq = f"{node}:{now}": now is a decimal integer, so the pair is recovered
\* from the string by splitting at the last colon.
SeqKey(node, t) == <<node, t>>

Row(node, node_type, t) ==
    [node |-> node, node_type |-> node_type, received_at |-> t, seq |-> SeqKey(node, t)]

Seqs(table) == {r.seq : r \in table}

Min(S) == CHOOSE x \in S : \A y \in S : x <= y

\* The locals of a request handler.
NoReq == [rows |-> {}, batch_id |-> None, response |-> <<>>]
\* A response: the status code, and of the body the batch id and the number
\* of records or events (what a pull returned is kept in `delivered`).
NoResp == [op |-> "none", code |-> 0, batch_id |-> None, count |-> -1]

Ok(op) == [NoResp EXCEPT !.op = op, !.code = 200]
Err400(op) == [NoResp EXCEPT !.op = op, !.code = 400]

\* The handler a new request is dispatched to: the first free one.
Free(h) == pc[h] = "idle" /\ (h = "w2" => pc["w1"] # "idle")

Init ==
    /\ now = 1
    /\ heartbeats = {}
    /\ node_status = <<>>
    /\ heartbeats_archive = {}
    /\ current_batch_id = None
    /\ event_queue = <<>>
    /\ db_lock = None
    /\ uuids = 0
    /\ pc = [h \in Handlers |-> "idle"]
    /\ req = [h \in Handlers |-> NoReq]
    /\ resp = NoResp
    /\ mon_pc = "sleep"
    /\ mon_now = 0
    /\ offline_nodes = {}
    /\ delivered = {}
    /\ acked = {}
    /\ returned = {}
    /\ nreq = 0
    /\ last_event = [n \in Nodes |-> None]
    /\ mon_undo = {}
    /\ rot_partial = [rows |-> {}, cleared |-> FALSE]

\* The wall clock advances.
Tick ==
    /\ now < MaxTime
    /\ now' = now + 1
    /\ UNCHANGED <<heartbeats, node_status, heartbeats_archive, current_batch_id,
                   event_queue, db_lock, uuids, pc, req, resp, mon_pc, mon_now,
                   offline_nodes, delivered, acked, returned, nreq,
                   last_event, mon_undo, rot_partial>>

\* ------------------------------------------------------ POST /heartbeat
\* Mutant of InsertHeartbeat: the UNIQUE constraint on seq is not there.
InsertHeartbeat_NoUnique(table, row) == table \cup {row}

\* INSERT INTO heartbeats ...; except sqlite3.IntegrityError: pass
\* (seq is UNIQUE: the insert fails, and is ignored, when the seq is there).
InsertHeartbeat(table, row) ==
    IF row.seq \in Seqs(table) THEN table ELSE table \cup {row}

\* Mutant of CameOnline: the status read is ignored and every heartbeat
\* counts as a recovery.
CameOnline_Always(status, node) == node \in Nodes

\* Mutant of CameOnline: the `not row` test for a new node is left out.
CameOnline_OnlyOffline(status, node) ==
    node \in DOMAIN status /\ status[node].status = "offline"

\* if not row or row[0] == "offline"
CameOnline(status, node) ==
    node \notin DOMAIN status \/ status[node].status = "offline"

\* INSERT INTO node_status ... ON CONFLICT(node) DO UPDATE
\*   SET last_seen=excluded.last_seen, status='online'
UpsertStatus(status, node, node_type, t) ==
    IF node \in DOMAIN status
    THEN [status EXCEPT ![node].last_seen = t, ![node].status = "online"]
    ELSE [n \in DOMAIN status \cup {node} |->
            IF n = node
            THEN [node_type |-> node_type, last_seen |-> t, status |-> "online"]
            ELSE status[n]]

Event(node, type, ts, node_type) ==
    [node |-> node, type |-> type, ts |-> ts, node_type |-> node_type]

\* Lines 88-131: one request.  The handler reads the clock (line 96) before
\* it waits for db_lock and touches nothing shared in between, so by the
\* time it holds the lock its `now` is any clock value t up to the current
\* one; each request runs on a thread of its own, so any number of them can
\* be waiting with an old t.
Heartbeat(node, node_type, t) ==
    /\ db_lock = None
    /\ IF ~Truthy(node) \/ ~Truthy(node_type)
       THEN /\ resp' = Err400("heartbeat")
            /\ UNCHANGED <<heartbeats, node_status, event_queue, nreq, last_event>>
       ELSE /\ nreq < MaxRequests
            /\ nreq' = nreq + 1
            /\ heartbeats' = InsertHeartbeat(heartbeats, Row(node, node_type, t))
            /\ event_queue' =
                 IF CameOnline(node_status, node)
                 THEN Append(event_queue, Event(node, "online", t, node_type))
                 ELSE event_queue
            /\ last_event' =
                 IF CameOnline(node_status, node)
                 THEN [last_event EXCEPT ![node] = "online"]
                 ELSE last_event
            /\ node_status' = UpsertStatus(node_status, node, node_type, t)
            /\ resp' = Ok("heartbeat")
    /\ UNCHANGED <<now, heartbeats_archive, current_batch_id, db_lock, uuids, pc,
                   req, mon_pc, mon_now, offline_nodes, delivered, acked, returned,
                   mon_undo, rot_partial>>

\* --------------------------------------------------------- monitor_nodes
\* Mutant of SelectOffline: the silence test is >= instead of >.
SelectOffline_AtThreshold(status, t) ==
    {n \in DOMAIN status :
        status[n].status = "online" /\ (t - status[n].last_seen) >= OFFLINE_THRESHOLD}

\* Mutant of SelectOffline: the operands of the subtraction are swapped.
SelectOffline_Swapped(status, t) ==
    {n \in DOMAIN status :
        status[n].status = "online" /\ (status[n].last_seen - t) > OFFLINE_THRESHOLD}

\* Mutant of SelectOffline: the status = 'online' filter is left out.
SelectOffline_NoStatusFilter(status, t) ==
    {n \in DOMAIN status : (t - status[n].last_seen) > OFFLINE_THRESHOLD}

\* SELECT node, node_type FROM node_status
\*  WHERE status = 'online' AND (? - last_seen) > ?
SelectOffline(status, t) ==
    {n \in DOMAIN status :
        status[n].status = "online" /\ (t - status[n].last_seen) > OFFLINE_THRESHOLD}

\* Lines 138-139: the thread wakes up and reads the clock.
MonitorWake ==
    /\ mon_pc = "sleep"
    /\ mon_pc' = "lock"
    /\ mon_now' = now
    /\ UNCHANGED <<now, heartbeats, node_status, heartbeats_archive,
                   current_batch_id, event_queue, db_lock, uuids, pc, req, resp,
                   offline_nodes, delivered, acked, returned, nreq,
                   last_event, mon_undo, rot_partial>>

\* Lines 141-146: acquire the lock and fetch the silent online nodes; with
\* no row fetched the loop body never runs and the lock is released at once
\* (line 161 and the end of the with block).
MonitorSelect ==
    /\ mon_pc = "lock"
    /\ db_lock = None
    /\ offline_nodes' = SelectOffline(node_status, mon_now)
    /\ IF offline_nodes' = {}
       THEN mon_pc' = "sleep" /\ mon_now' = 0 /\ UNCHANGED db_lock
       ELSE mon_pc' = "loop" /\ db_lock' = "monitor" /\ UNCHANGED mon_now
    /\ UNCHANGED <<now, heartbeats, node_status, heartbeats_archive,
                   current_batch_id, event_queue, uuids, pc, req, resp,
                   delivered, acked, returned, nreq,
                   last_event, mon_undo, rot_partial>>

\* Mutant of MonitorDemote: the UPDATE also stores the detection time in
\* last_seen.
MonitorDemote_TouchesLastSeen ==
    /\ mon_pc = "loop"
    /\ \E node \in offline_nodes :
        /\ node_status' = [node_status EXCEPT ![node].status = "offline",
                                               ![node].last_seen = mon_now]
        /\ event_queue' = Append(event_queue,
               Event(node, "offline", mon_now, node_status[node].node_type))
        /\ last_event' = [last_event EXCEPT ![node] = "offline"]
        /\ offline_nodes' = offline_nodes \ {node}
        /\ mon_undo' = IF offline_nodes' = {} THEN {} ELSE mon_undo \cup {node}
    /\ IF offline_nodes' = {}
       THEN mon_pc' = "sleep" /\ mon_now' = 0 /\ db_lock' = None
       ELSE UNCHANGED <<mon_pc, mon_now, db_lock>>
    /\ UNCHANGED <<now, heartbeats, heartbeats_archive, current_batch_id,
                   uuids, pc, req, resp, delivered, acked, returned, nreq,
                   rot_partial>>

\* Lines 148-161: one iteration of the loop over the fetched rows (in the
\* order fetchall gave them); after the last one, commit, release the lock
\* and sleep again.
MonitorDemote ==
    /\ mon_pc = "loop"
    /\ \E node \in offline_nodes :
        /\ node_status' = [node_status EXCEPT ![node].status = "offline"]
        /\ event_queue' = Append(event_queue,
               Event(node, "offline", mon_now, node_status[node].node_type))
        /\ last_event' = [last_event EXCEPT ![node] = "offline"]
        /\ offline_nodes' = offline_nodes \ {node}
        /\ mon_undo' = IF offline_nodes' = {} THEN {} ELSE mon_undo \cup {node}
    /\ IF offline_nodes' = {}
       THEN mon_pc' = "sleep" /\ mon_now' = 0 /\ db_lock' = None
       ELSE UNCHANGED <<mon_pc, mon_now, db_lock>>
    /\ UNCHANGED <<now, heartbeats, heartbeats_archive, current_batch_id,
                   uuids, pc, req, resp, delivered, acked, returned, nreq,
                   rot_partial>>

\* The rows of the tick's uncommitted transaction, rolled back.
Rollback(status, undo) ==
    [n \in DOMAIN status |->
        IF n \in undo THEN [status[n] EXCEPT !.status = "online"] ELSE status[n]]

\* Lines 141-161 when sqlite3 raises.  monitor_nodes has no try: the
\* exception leaves both with blocks (the connection rolls back what the
\* tick has not committed, the lock is released) and then the while loop and
\* the thread.  The fault is at the connect or the SELECT, or in the loop at
\* an UPDATE or at the commit, in which case the iteration before it may
\* have run (its append to event_queue is not undone).
MonitorFault ==
    /\ \/ /\ mon_pc = "lock"
          /\ db_lock = None
          /\ UNCHANGED <<node_status, event_queue, last_event>>
       \/ /\ mon_pc = "loop"
          /\ \/ UNCHANGED <<event_queue, last_event>>
             \/ \E node \in offline_nodes :
                   /\ event_queue' = Append(event_queue,
                          Event(node, "offline", mon_now, node_status[node].node_type))
                   /\ last_event' = [last_event EXCEPT ![node] = "offline"]
          /\ node_status' = Rollback(node_status, mon_undo)
    /\ mon_pc' = "dead"
    /\ mon_now' = 0
    /\ offline_nodes' = {}
    /\ mon_undo' = {}
    /\ db_lock' = None
    /\ UNCHANGED <<now, heartbeats, heartbeats_archive, current_batch_id, uuids,
                   pc, req, resp, delivered, acked, returned, nreq, rot_partial>>

\* -------------------------------------------------------- buffer_rotator
\* Mutant of InsertOrIgnore: INSERT OR REPLACE, a row with an archived seq
\* takes the place of the archived row.
InsertOrIgnore_Replace(table, rows) ==
    {r \in table : r.seq \notin Seqs(rows)} \cup rows

\* Mutant of InsertOrIgnore: the first conflicting row ends the statement,
\* and no row is inserted.
InsertOrIgnore_AbortOnConflict(table, rows) ==
    IF \E r \in rows : r.seq \in Seqs(table) THEN table ELSE table \cup rows

\* INSERT OR IGNORE INTO heartbeats_archive ... (executemany over rows)
InsertOrIgnore(table, rows) ==
    table \cup {r \in rows : r.seq \notin Seqs(table)}

\* Mutant of RotationDue: the age test of line 179 is left out.
RotationDue_IgnoresAge(table, t) ==
    /\ table # {}
    /\ Min({r.received_at : r \in table}) # 0

\* Lines 175-180: the two `continue` tests.
RotationDue(table, t) ==
    /\ table # {}
    /\ Min({r.received_at : r \in table}) # 0
    /\ ~(t - Min({r.received_at : r \in table}) < BUFFER_ROTATE_SECONDS)

\* Lines 170-195: one pass of the loop body, under the lock.
RotatorTick ==
    /\ db_lock = None
    /\ IF RotationDue(heartbeats, now)
       THEN /\ heartbeats_archive' = InsertOrIgnore(heartbeats_archive, heartbeats)
            /\ heartbeats' = {}
            /\ rot_partial' = [rows |-> {}, cleared |-> rot_partial.rows # {}]
       ELSE UNCHANGED <<heartbeats, heartbeats_archive, rot_partial>>
    /\ UNCHANGED <<now, node_status, current_batch_id, event_queue, db_lock, uuids,
                   pc, req, resp, mon_pc, mon_now, offline_nodes, delivered,
                   acked, returned, nreq, last_event, mon_undo>>

\* Lines 186-198: a storage fault in a pass that is due.  A fault before the
\* archive commit of line 190 leaves both stores as they were; one at the
\* DELETE or the buffer commit (lines 193-194) comes after the archive has
\* been committed and rolls the buffer back.  Either way the exception is
\* caught at line 197 inside the loop, both with blocks exit and release the
\* lock, and the thread sleeps until its next pass.
RotatorFault ==
    /\ db_lock = None
    /\ RotationDue(heartbeats, now)
    /\ \/ UNCHANGED <<heartbeats_archive, rot_partial>>
       \/ /\ heartbeats_archive' = InsertOrIgnore(heartbeats_archive, heartbeats)
          /\ rot_partial' = [rows |-> heartbeats, cleared |-> FALSE]
    /\ UNCHANGED <<now, heartbeats, node_status, current_batch_id, event_queue,
                   db_lock, uuids, pc, req, resp, mon_pc, mon_now, offline_nodes,
                   delivered, acked, returned, nreq, last_event, mon_undo>>

\* ----------------------------------------------------------- GET /events
\* Line 209: response = list(event_queue)
GetEventsCopy(h) ==
    /\ Free(h)
    /\ nreq < MaxRequests
    /\ nreq' = nreq + 1
    /\ pc' = [pc EXCEPT ![h] = "ev_clear"]
    /\ req' = [req EXCEPT ![h] = [NoReq EXCEPT !.response = event_queue]]
    /\ UNCHANGED <<now, heartbeats, node_status, heartbeats_archive,
                   current_batch_id, event_queue, db_lock, uuids, resp, mon_pc,
                   mon_now, offline_nodes, delivered, acked, returned,
                   last_event, mon_undo, rot_partial>>

\* Lines 210-211: event_queue = []; return jsonify(response)
GetEventsClear(h) ==
    /\ pc[h] = "ev_clear"
    /\ event_queue' = <<>>
    /\ resp' = [Ok("events") EXCEPT !.count = Len(req[h].response)]
    /\ pc' = [pc EXCEPT ![h] = "idle"]
    /\ req' = [req EXCEPT ![h] = NoReq]
    /\ UNCHANGED <<now, heartbeats, node_status, heartbeats_archive,
                   current_batch_id, db_lock, uuids, mon_pc, mon_now,
                   offline_nodes, delivered, acked, returned, nreq,
                   last_event, mon_undo, rot_partial>>

\* ----------------------------------------------------- GET /archive/pull
\* Mutant of PullRead: the `if not rows` return of lines 224-225 is left
\* out, and a pull of an empty archive goes on to issue a batch id.
PullRead_EmptyIssuesToken(h) ==
    /\ Free(h)
    /\ db_lock = None
    /\ nreq < MaxRequests
    /\ nreq' = nreq + 1
    /\ pc' = [pc EXCEPT ![h] = "pull_assign"]
    /\ req' = [req EXCEPT ![h] = [NoReq EXCEPT !.rows = heartbeats_archive]]
    /\ UNCHANGED <<now, heartbeats, node_status, heartbeats_archive,
                   current_batch_id, event_queue, db_lock, uuids, resp, mon_pc,
                   mon_now, offline_nodes, delivered, acked, returned,
                   last_event, mon_undo, rot_partial>>

\* Lines 219-225: read the archive under the lock; an empty result returns.
PullRead(h) ==
    /\ Free(h)
    /\ db_lock = None
    /\ IF heartbeats_archive = {}
       THEN /\ resp' = [Ok("pull") EXCEPT !.count = 0]
            /\ UNCHANGED <<pc, req, nreq>>
       ELSE /\ nreq < MaxRequests
            /\ nreq' = nreq + 1
            /\ pc' = [pc EXCEPT ![h] = "pull_assign"]
            /\ req' = [req EXCEPT ![h] = [NoReq EXCEPT !.rows = heartbeats_archive]]
            /\ UNCHANGED resp
    /\ UNCHANGED <<now, heartbeats, node_status, heartbeats_archive,
                   current_batch_id, event_queue, db_lock, uuids, mon_pc,
                   mon_now, offline_nodes, delivered, acked, returned,
                   last_event, mon_undo, rot_partial>>

\* Mutant of NewBatchId: a pending batch id is kept instead of replaced.
NewBatchId_Reuse(cur, drawn) == IF cur # None THEN cur ELSE Uuid(drawn + 1)

\* Line 227: current_batch_id = str(uuid.uuid4())
NewBatchId(cur, drawn) == Uuid(drawn + 1)

PullAssign(h) ==
    /\ pc[h] = "pull_assign"
    /\ current_batch_id' = NewBatchId(current_batch_id, uuids)
    /\ uuids' = uuids + 1
    /\ pc' = [pc EXCEPT ![h] = "pull_return"]
    /\ UNCHANGED <<now, heartbeats, node_status, heartbeats_archive, event_queue,
                   db_lock, req, resp, mon_pc, mon_now, offline_nodes, delivered,
                   acked, returned, nreq,
                   last_event, mon_undo, rot_partial>>

\* Lines 230-237: the response reads the global current_batch_id again.
PullReturn(h) ==
    /\ pc[h] = "pull_return"
    /\ resp' = [Ok("pull") EXCEPT !.batch_id = current_batch_id,
                                  !.count = Cardinality(req[h].rows)]
    /\ delivered' = delivered \cup req[h].rows
    /\ returned' = returned \cup {b \in {current_batch_id} : Truthy(b)}
    /\ pc' = [pc EXCEPT ![h] = "idle"]
    /\ req' = [req EXCEPT ![h] = NoReq]
    /\ UNCHANGED <<now, heartbeats, node_status, heartbeats_archive,
                   current_batch_id, event_queue, db_lock, uuids, mon_pc,
                   mon_now, offline_nodes, acked, nreq,
                   last_event, mon_undo, rot_partial>>

\* ----------------------------------------------------- POST /archive/ack
\* Mutant of AckRejected: the `not batch_id` test is left out.
AckRejected_AbsentAccepted(batch_id, cur) == batch_id # cur

\* Line 248: if not batch_id or batch_id != current_batch_id (rejected)
AckRejected(batch_id, cur) == ~Truthy(batch_id) \/ batch_id # cur

\* Lines 245-249: the token comparison, made before the lock is taken.
AckCompare(h, batch_id) ==
    /\ Free(h)
    /\ IF AckRejected(batch_id, current_batch_id)
       THEN /\ resp' = Err400("ack")
            /\ UNCHANGED <<pc, req, nreq>>
       ELSE /\ nreq < MaxRequests
            /\ nreq' = nreq + 1
            /\ pc' = [pc EXCEPT ![h] = "ack_delete"]
            /\ req' = [req EXCEPT ![h] = [NoReq EXCEPT !.batch_id = batch_id]]
            /\ UNCHANGED resp
    /\ UNCHANGED <<now, heartbeats, node_status, heartbeats_archive,
                   current_batch_id, event_queue, db_lock, uuids, mon_pc,
                   mon_now, offline_nodes, delivered, acked, returned,
                   last_event, mon_undo, rot_partial>>

\* Lines 251-253: DELETE FROM heartbeats_archive, under the lock.
AckDelete(h) ==
    /\ pc[h] = "ack_delete"
    /\ db_lock = None
    /\ heartbeats_archive' = {}
    /\ pc' = [pc EXCEPT ![h] = "ack_reset"]
    /\ UNCHANGED <<now, heartbeats, node_status, current_batch_id, event_queue,
                   db_lock, uuids, req, resp, mon_pc, mon_now, offline_nodes,
                   delivered, acked, returned, nreq,
                   last_event, mon_undo, rot_partial>>

\* Mutant of AckReset: the batch id is not reset.
AckReset_KeepsToken(h) ==
    /\ pc[h] = "ack_reset"
    /\ acked' = acked \cup {req[h].batch_id}
    /\ resp' = Ok("ack")
    /\ pc' = [pc EXCEPT ![h] = "idle"]
    /\ req' = [req EXCEPT ![h] = NoReq]
    /\ UNCHANGED <<now, heartbeats, node_status, heartbeats_archive,
                   current_batch_id, event_queue, db_lock, uuids, mon_pc,
                   mon_now, offline_nodes, delivered, returned, nreq,
                   last_event, mon_undo, rot_partial>>

\* Lines 255-257: log, current_batch_id = None, return ok.
AckReset(h) ==
    /\ pc[h] = "ack_reset"
    /\ current_batch_id' = None
    /\ acked' = acked \cup {req[h].batch_id}
    /\ resp' = Ok("ack")
    /\ pc' = [pc EXCEPT ![h] = "idle"]
    /\ req' = [req EXCEPT ![h] = NoReq]
    /\ UNCHANGED <<now, heartbeats, node_status, heartbeats_archive, event_queue,
                   db_lock, uuids, mon_pc, mon_now, offline_nodes, delivered,
                   returned, nreq,
                   last_event, mon_undo, rot_partial>>

\* The clock values a heartbeat handler may hold when it gets the lock (a
\* rejected payload never reads the clock).
ClockReads(node, node_type) ==
    IF Truthy(node) /\ Truthy(node_type) THEN 1..now ELSE {now}

\* Batch ids a consumer may send: none, one the server never issued, and
\* any it was given in a pull response.
BatchIds == {None, BogusBatch} \cup returned

Next ==
    \/ Tick
    \/ \E node \in Nodes \cup {None}, node_type \in NodeTypes \cup {None} :
          \E t \in ClockReads(node, node_type) : Heartbeat(node, node_type, t)
    \/ \E h \in Handlers :
        \/ GetEventsCopy(h)
        \/ GetEventsClear(h)
        \/ PullRead(h)
        \/ PullAssign(h)
        \/ PullReturn(h)
        \/ \E batch_id \in BatchIds : AckCompare(h, batch_id)
        \/ AckDelete(h)
        \/ AckReset(h)
    \/ MonitorWake
    \/ MonitorSelect
    \/ MonitorDemote
    \/ RotatorTick

\* The whole server.
Spec == Init /\ [][Next]_vars

\* The delivery pipeline alone: ingest, rotation, pull and acknowledge.  The
\* monitor and the drain read and write only node_status and event_queue,
\* which none of these operations reads, so leaving their steps out changes
\* no behaviour of the buffer, the archive and the batch id.
NextDelivery ==
    \/ Tick
    \/ \E node \in Nodes \cup {None}, node_type \in NodeTypes \cup {None} :
          \E t \in ClockReads(node, node_type) : Heartbeat(node, node_type, t)
    \/ \E h \in Handlers :
        \/ PullRead(h)
        \/ PullAssign(h)
        \/ PullReturn(h)
        \/ \E batch_id \in BatchIds : AckCompare(h, batch_id)
        \/ AckDelete(h)
        \/ AckReset(h)
    \/ RotatorTick

SpecDelivery == Init /\ [][NextDelivery]_vars

\* Liveness tracking alone: ingest, the monitor and the drain.  The rotator,
\* pull and acknowledge read and write only the buffer, the archive and the
\* batch id, which the monitor and the drain never touch and whose content
\* no step of the ingest depends on.
NextLiveness ==
    \/ Tick
    \/ \E node \in Nodes \cup {None}, node_type \in NodeTypes \cup {None} :
          \E t \in ClockReads(node, node_type) : Heartbeat(node, node_type, t)
    \/ \E h \in Handlers :
        \/ GetEventsCopy(h)
        \/ GetEventsClear(h)
    \/ MonitorWake
    \/ MonitorSelect
    \/ MonitorDemote

SpecLiveness == Init /\ [][NextLiveness]_vars

\* Ingest and rotation with storage faults in the rotator, while the
\* consumer is away: no pull reads the archive and no acknowledge empties it
\* between a failed rotation and the next one.
NextRotatorFault ==
    \/ Tick
    \/ \E node \in Nodes \cup {None}, node_type \in NodeTypes \cup {None} :
          \E t \in ClockReads(node, node_type) : Heartbeat(node, node_type, t)
    \/ RotatorTick
    \/ RotatorFault

SpecRotatorFault == Init /\ [][NextRotatorFault]_vars

\* Liveness tracking with storage faults in the monitor.
NextMonitorFault == NextLiveness \/ MonitorFault

SpecMonitorFault == Init /\ [][NextMonitorFault]_vars

\* Ingest and the monitor without faults, where time advances and the
\* monitor thread is scheduled: its loop never ends by itself, and it gets
\* the lock, which every holder releases, whenever it waits for it.  The
\* drain, which only empties event_queue, is left out.
NextMonitor ==
    \/ Tick
    \/ \E node \in Nodes \cup {None}, node_type \in NodeTypes \cup {None} :
          \E t \in ClockReads(node, node_type) : Heartbeat(node, node_type, t)
    \/ MonitorWake
    \/ MonitorSelect
    \/ MonitorDemote

SpecFair ==
    /\ Init /\ [][NextMonitor]_vars
    /\ WF_vars(Tick)
    /\ WF_vars(MonitorWake)
    /\ WF_vars(MonitorSelect)
    /\ WF_vars(MonitorDemote)

\* ------------------------------------------------------------------ claims

\* C1: every record that leaves the archive was in a pull response returned
\* before: no record is deleted without having been delivered.
C1_NoSilentLoss ==
    [][\A r \in heartbeats_archive :
          r \notin heartbeats_archive' => r \in delivered]_vars

\* C2: the token comparison, the archive deletion and the token reset of an
\* acknowledge are one indivisible step: an acknowledge that has passed its
\* comparison still finds its own token pending until it resets it (no pull
\* has replaced the token, no other acknowledge of it has succeeded).
C2_TokenAtomic ==
    \A h \in Handlers :
        pc[h] \in {"ack_delete", "ack_reset"} => current_batch_id = req[h].batch_id

\* C3: an acknowledge whose token is absent or differs from the pending
\* token is answered 400 and changes neither the archive nor the pending
\* token nor anything else.
C3_RejectedAckMutatesNothing ==
    [][\A h \in Handlers, b \in BatchIds :
          (AckCompare(h, b) /\ (b = None \/ b # current_batch_id))
          => /\ resp' = Err400("ack")
             /\ UNCHANGED <<now, heartbeats, node_status, heartbeats_archive,
                            current_batch_id, event_queue, db_lock, uuids, pc,
                            req, mon_pc, mon_now, offline_nodes, delivered,
                            acked, returned, nreq,
                   last_event, mon_undo, rot_partial>>]_vars

\* C3 witness: an acknowledge has just been rejected while a batch is
\* pending, and the archive and the pending token are still there.
C3_Witness ==
    /\ resp = Err400("ack")
    /\ current_batch_id # None
    /\ heartbeats_archive # {}
    /\ \A h \in Handlers : pc[h] = "idle"

\* C4: an acknowledge of the pending token is accepted, its deletion empties
\* the archive, its last step leaves no pending token and answers ok; and
\* every acknowledge of a token already acknowledged is rejected and changes
\* nothing.
C4_AckOnce ==
    [][\A h \in Handlers :
          /\ \A b \in BatchIds :
                (AckCompare(h, b) /\ b # None /\ b = current_batch_id)
                => (pc'[h] = "ack_delete" /\ req'[h].batch_id = b)
          /\ (pc[h] = "ack_delete" /\ pc'[h] # "ack_delete")
             => (heartbeats_archive' = {} /\ pc'[h] = "ack_reset")
          /\ (pc[h] = "ack_reset" /\ pc'[h] # "ack_reset")
             => /\ current_batch_id' = None
                /\ resp' = Ok("ack")
                /\ pc'[h] = "idle"
                /\ req[h].batch_id \in acked'
          /\ \A b \in acked :
                AckCompare(h, b)
                => /\ resp' = Err400("ack")
                   /\ UNCHANGED <<heartbeats_archive, current_batch_id, pc, req,
                                  acked>>]_vars

\* C4 witness: a pulled batch has just been acknowledged: the archive is
\* empty and no token is pending.
C4_Witness ==
    /\ resp = Ok("ack")
    /\ acked # {}
    /\ delivered # {}
    /\ heartbeats_archive = {}
    /\ current_batch_id = None

\* C5: no step of a pull changes the archive, and the token a pull assigns is
\* non-empty and differs from every token issued before, so that right after
\* the assignment an acknowledge of any earlier token would be rejected and
\* an acknowledge of the new one accepted.
C5_PullSupersedes ==
    [][\A h \in Handlers :
          /\ (PullRead(h) \/ PullAssign(h) \/ PullReturn(h))
             => heartbeats_archive' = heartbeats_archive
          /\ (pc[h] = "pull_assign" /\ pc'[h] # "pull_assign")
             => /\ current_batch_id' \notin
                      BatchIds \cup {current_batch_id} \cup {Uuid(k) : k \in 1..uuids}
                /\ \A b \in BatchIds \cup {current_batch_id} :
                      AckRejected(b, current_batch_id')
                /\ ~AckRejected(current_batch_id', current_batch_id')]_vars

\* C5 witness: a second pull has issued its token before any acknowledge.
C5_Witness ==
    /\ uuids = 2
    /\ current_batch_id = Uuid(2)
    /\ acked = {}
    /\ heartbeats_archive # {}
    /\ \A h \in Handlers : pc[h] \notin {"ack_delete", "ack_reset"}

\* C6: a node goes from online to offline only in a step of the monitor's
\* loop, taken under the lock, and only when the clock value the tick read
\* minus the node's last_seen exceeds the threshold.
C6_OnlyMonitorDemotes ==
    [][\A n \in DOMAIN node_status :
          (node_status[n].status = "online" /\ node_status'[n].status = "offline")
          => /\ mon_pc = "loop"
             /\ db_lock = "monitor"
             /\ mon_now <= now
             /\ mon_now - node_status[n].last_seen > OFFLINE_THRESHOLD
             /\ node_status'[n].last_seen = node_status[n].last_seen]_vars

\* C6 witness: a node has been demoted.
C6_Witness ==
    /\ \E n \in DOMAIN node_status : node_status[n].status = "offline"
    /\ mon_pc = "sleep"

\* C7: a step appends exactly one offline event for a node when it demotes
\* the node from online to offline, and none otherwise: a tick that finds the
\* node already offline emits nothing for it.
C7_OneOfflineEventPerSpan ==
    [][LET appended ==
              IF Len(event_queue') > Len(event_queue)
              THEN SubSeq(event_queue', Len(event_queue) + 1, Len(event_queue'))
              ELSE <<>>
           offline(n) ==
              {i \in DOMAIN appended :
                  appended[i].node = n /\ appended[i].type = "offline"}
           demoted(n) ==
              /\ n \in DOMAIN node_status
              /\ node_status[n].status = "online"
              /\ node_status'[n].status = "offline"
       IN \A n \in Nodes :
             Cardinality(offline(n)) = IF demoted(n) THEN 1 ELSE 0]_vars

\* C7 witness: a tick is about to scan while a node is offline and still
\* silent, and the one offline event of the span is in the queue.
C7_Witness ==
    /\ mon_pc = "lock"
    /\ \E n \in DOMAIN node_status :
          /\ node_status[n].status = "offline"
          /\ mon_now - node_status[n].last_seen > OFFLINE_THRESHOLD
          /\ Cardinality({i \in DOMAIN event_queue :
                 event_queue[i].node = n /\ event_queue[i].type = "offline"}) = 1

\* C8: an accepted heartbeat appends one online event for its node when the
\* node was unknown or offline just before, and no event otherwise; after
\* it the node is online.
C8_OnlineEventIffRevived ==
    [][\A node \in Nodes, node_type \in NodeTypes, t \in 1..now :
          Heartbeat(node, node_type, t)
          => /\ node_status'[node].status = "online"
             /\ IF node \notin DOMAIN node_status
                   \/ node_status[node].status = "offline"
                THEN event_queue' =
                       Append(event_queue, Event(node, "online", t, node_type))
                ELSE event_queue' = event_queue]_vars

\* C8 witness: a node came online, went offline and came online again.
C8_Witness ==
    /\ Len(event_queue) = 3
    /\ event_queue[1].type = "online"
    /\ event_queue[2].type = "offline"
    /\ event_queue[3].type = "online"
    /\ \A n \in DOMAIN node_status : node_status[n].status = "online"

\* C9: a drain returns exactly the events it removes: when it clears the
\* queue, the queue holds the events it has copied into its response, no
\* more (none lost) and no fewer (none returned twice).
C9_DrainExact ==
    [][\A h \in Handlers :
          (pc[h] = "ev_clear" /\ pc'[h] # "ev_clear")
          => event_queue = req[h].response]_vars

\* C10: no two records of the buffer, and no two records of the archive,
\* have the same dedup key; an accepted heartbeat answers ok and leaves
\* exactly one buffer record with its key, whether or not the key was there.
C10_UniqueKeys ==
    /\ [](\A r1, r2 \in heartbeats : r1.seq = r2.seq => r1 = r2)
    /\ [](\A r1, r2 \in heartbeats_archive : r1.seq = r2.seq => r1 = r2)
    /\ [][\A node \in Nodes, node_type \in NodeTypes, t \in 1..now :
             Heartbeat(node, node_type, t)
             => /\ resp' = Ok("heartbeat")
                /\ Cardinality({r \in heartbeats' : r.seq = SeqKey(node, t)}) = 1]_vars

\* C10 witness: a key was submitted again after its record had been rotated
\* into the archive, and the submission was answered ok: the buffer and the
\* archive each hold one record with the key, and the two differ.
C10_Witness ==
    /\ resp = Ok("heartbeat")
    /\ \E r1 \in heartbeats, r2 \in heartbeats_archive :
          r1.seq = r2.seq /\ r1 # r2

\* C11: a rotation that is triggered leaves the buffer empty; the keys of the
\* archive after it are those it held before and those of the buffer, its
\* count grows by the number of buffered records whose key was not archived,
\* and the records archived before are still there; and no step other than
\* the deletion of an acknowledge makes a key disappear from the two stores,
\* so a record ingested around a rotation is never dropped by it.
C11_RotationMovesAll ==
    [][/\ (RotatorTick /\ RotationDue(heartbeats, now))
          => /\ heartbeats' = {}
             /\ Seqs(heartbeats_archive') =
                   Seqs(heartbeats_archive) \cup Seqs(heartbeats)
             /\ Cardinality(heartbeats_archive') =
                   Cardinality(heartbeats_archive)
                   + Cardinality({r \in heartbeats :
                                    r.seq \notin Seqs(heartbeats_archive)})
             /\ heartbeats_archive \subseteq heartbeats_archive'
       /\ (\A h \in Handlers : ~(pc[h] = "ack_delete" /\ pc'[h] = "ack_reset"))
          => (Seqs(heartbeats) \cup Seqs(heartbeats_archive))
                \subseteq (Seqs(heartbeats') \cup Seqs(heartbeats_archive'))]_vars

\* C11 witness: rotations have emptied the buffer into the archive, which
\* holds records of two rotations' worth of keys and has not been pulled.
C11_Witness ==
    /\ heartbeats = {}
    /\ Cardinality(heartbeats_archive) >= 2
    /\ delivered = {}
    /\ uuids = 0

\* C12 as stated: a rotator pass changes the buffer or the archive only when
\* the buffer is non-empty and the age of its oldest record is greater than
\* the rotation threshold.
C12_RotatesOnlyPastThreshold ==
    [][RotatorTick
       => IF /\ heartbeats # {}
             /\ now - Min({r.received_at : r \in heartbeats}) > BUFFER_ROTATE_SECONDS
          THEN TRUE
          ELSE UNCHANGED <<heartbeats, heartbeats_archive>>]_vars

\* C12 amended: a rotator pass changes the buffer or the archive only when
\* the buffer is non-empty and the age of its oldest record is at least the
\* rotation threshold; every other pass leaves both unchanged.
C12_RotatesOnlyAtThreshold ==
    [][RotatorTick
       => IF /\ heartbeats # {}
             /\ now - Min({r.received_at : r \in heartbeats}) >= BUFFER_ROTATE_SECONDS
          THEN TRUE
          ELSE UNCHANGED <<heartbeats, heartbeats_archive>>]_vars

\* C12 witness: a rotation has run when the oldest record's age was equal to
\* the threshold: no archived record is older than the threshold even now.
C12_Witness ==
    /\ heartbeats = {}
    /\ heartbeats_archive # {}
    /\ \A r \in heartbeats_archive : now - r.received_at <= BUFFER_ROTATE_SECONDS

\* C13: whatever storage faults its ticks have met, the monitor thread is
\* still in its loop (asleep, waiting for the lock or scanning), so that its
\* later ticks run and demote silent nodes; and it holds the lock only while
\* it scans.
C13_MonitorSurvivesFault ==
    /\ mon_pc \in {"sleep", "lock", "loop"}
    /\ (mon_pc # "loop" => db_lock # "monitor")

\* C14: a rotation that fails leaves the lock free for the rotator's next
\* pass; and when a rotation has copied the buffer and failed before clearing
\* it, and the copies are still archived (no acknowledge has deleted them),
\* the next rotation that completes finds the copied records still buffered,
\* empties the buffer, keeps every archived record and leaves exactly one
\* archived record for the key of each record that was buffered.
C14_RotationRerunnable ==
    [][/\ RotatorFault => db_lock' = None
       /\ (/\ RotatorTick
           /\ RotationDue(heartbeats, now)
           /\ rot_partial.rows # {}
           /\ ~rot_partial.cleared
           /\ Seqs(rot_partial.rows) \subseteq Seqs(heartbeats_archive))
          => /\ rot_partial.rows \subseteq heartbeats
             /\ heartbeats' = {}
             /\ heartbeats_archive \subseteq heartbeats_archive'
             /\ \A r \in heartbeats :
                   Cardinality({a \in heartbeats_archive' : a.seq = r.seq}) = 1]_vars

\* C14 witness: a rotation failed after its copy and the next one that
\* completed has cleared the buffer, with no acknowledge in between.
C14_Witness ==
    /\ rot_partial.cleared
    /\ heartbeats_archive # {}
    /\ heartbeats = {}
    /\ acked = {}
    /\ \A h \in Handlers : pc[h] \notin {"ack_delete", "ack_reset"}

\* C15: a pull that finds the archive empty answers count 0 with no batch id
\* and no record, draws no batch id and leaves the pending one, the archive
\* and every handler as they were; when no batch was pending before it, none
\* is pending after it, and an acknowledge of any batch id, issued earlier or
\* not, would be rejected.
C15_EmptyPullStaysIdle ==
    [][\A h \in Handlers :
          (PullRead(h) /\ heartbeats_archive = {})
          => /\ resp' = [Ok("pull") EXCEPT !.count = 0]
             /\ resp'.batch_id = None
             /\ UNCHANGED <<current_batch_id, uuids, heartbeats_archive, pc, req,
                            delivered, returned>>
             /\ current_batch_id = None
                => \A b \in BatchIds \cup {Uuid(k) : k \in 1..uuids} :
                      AckRejected(b, current_batch_id')]_vars

\* C15 witness: after a batch has been pulled and acknowledged, a pull of
\* the empty archive has been answered count 0 and no batch is pending.
C15_Witness ==
    /\ resp = [Ok("pull") EXCEPT !.count = 0]
    /\ current_batch_id = None
    /\ heartbeats_archive = {}
    /\ acked # {}
    /\ returned # {}
    /\ \A h \in Handlers : pc[h] = "idle"

\* C16: when time advances and the monitor is scheduled, a node that is
\* online with last_seen t, early enough for the clock to pass t plus the
\* threshold, is eventually marked offline unless a further signal moves its
\* last_seen; and a signal accepted for an offline node leaves it online.
C16_OnlineOfflineCycle ==
    /\ \A n \in Nodes, t \in 1..(MaxTime - OFFLINE_THRESHOLD - 1) :
          (IF n \in DOMAIN node_status
           THEN /\ node_status[n].status = "online"
                /\ node_status[n].last_seen = t
           ELSE FALSE)
          ~> (IF n \in DOMAIN node_status
              THEN \/ node_status[n].status = "offline"
                   \/ node_status[n].last_seen # t
              ELSE FALSE)
    /\ [][\A node \in Nodes, node_type \in NodeTypes, t \in 1..now :
             (/\ Heartbeat(node, node_type, t)
              /\ node \in DOMAIN node_status
              /\ node_status[node].status = "offline")
             => node_status'[node].status = "online"]_vars

\* C16 witness: a node went offline by silence and a later signal has
\* brought it back online.
C16_Witness ==
    \E n \in DOMAIN node_status :
        /\ node_status[n].status = "online"
        /\ last_event[n] = "online"
        /\ \E i \in DOMAIN event_queue :
              /\ event_queue[i].node = n
              /\ event_queue[i].type = "offline"
              /\ event_queue[i].ts <= node_status[n].last_seen

\* C17: after an accepted heartbeat, for a new node and for a registered one
\* alike, the node's row has status online, last_seen equal to the clock
\* value of the heartbeat and node_type equal to the one it carried.
C17_UpsertSetsAllFields ==
    [][\A node \in Nodes, node_type \in NodeTypes, t \in 1..now :
          Heartbeat(node, node_type, t)
          => node_status'[node] =
                [node_type |-> node_type, last_seen |-> t, status |-> "online"]]_vars

\* C18: every step of a monitor tick leaves the buffer, the archive and the
\* batch id unchanged, keeps the set of registered nodes and the last_seen
\* and node_type of each, leaves the row of a node that is offline as it is,
\* and changes a status only from online to offline.
C18_MonitorFrame ==
    [][(MonitorWake \/ MonitorSelect \/ MonitorDemote)
       => /\ UNCHANGED <<heartbeats, heartbeats_archive, current_batch_id>>
          /\ DOMAIN node_status' = DOMAIN node_status
          /\ \A n \in DOMAIN node_status :
                /\ node_status'[n].last_seen = node_status[n].last_seen
                /\ node_status'[n].node_type = node_status[n].node_type
                /\ node_status[n].status = "offline"
                   => node_status'[n] = node_status[n]
                /\ node_status'[n].status # node_status[n].status
                   => node_status'[n].status = "offline"]_vars

\* C18 witness: a tick has demoted a node while the buffer and the archive
\* held records and a batch was pending, and they are still there.
C18_Witness ==
    /\ mon_pc = "sleep"
    /\ \E n \in DOMAIN node_status :
          node_status[n].status = "offline" /\ last_event[n] = "offline"
    /\ heartbeats # {}
    /\ heartbeats_archive # {}
    /\ current_batch_id # None

C20_LastSeenMonotonic ==
    [][\A n \in DOMAIN node_status :
          node_status'[n].last_seen >= node_status[n].last_seen]_vars
====
